---- MODULE Spec2Model ----
(***************************************************************************)
(* A model of RubikCube (src/main.py): six numpy faces, the three rotation *)
(* families rotate_row / rotate_column / rotate_level, init_arange and the *)
(* key driven encrypt.                                                     *)
(*                                                                         *)
(* A face is a grid: a function from row index 0..R-1 to a function from   *)
(* column index 0..C-1 to a cell value, indexed from 0 as in the source.   *)
(*                                                                         *)
(* __init__ allocates six arrays and keeps them in the list self.faces.    *)
(* The attributes self.A .. self.F start as those arrays, but every move   *)
(* rebinds one attribute to np.rot90(...) of itself, which numpy returns   *)
(* as a rotated VIEW of the same memory.  So the program state is the      *)
(* contents of the six arrays (faces) together with, for every attribute,  *)
(* by how many quarter turns it views its array (turn).                    *)
(***************************************************************************)
EXTENDS Integers, Sequences, FiniteSets, TLC

(* ------------------------------ bounds -------------------------------- *)

\* Rotation requests (direct calls, or tokens of keys) made in one run.
MaxCalls == 2
\* Direct calls draw their repeat count n from 0..MaxN.
MaxN == 7
\* Cube sizes a cube is constructed with.
Sizes == {2, 3}

(* ------------------------- numpy array helpers ------------------------ *)

\* The array v with every cell computed: numpy computes an array when it is
\* built, TLC a function only where it is applied.  Comparing a value makes
\* TLC compute it once and keep it.
Computed(v) == IF v = v THEN v ELSE v

Rows(m) == Cardinality(DOMAIN m)
Cols(m) == Cardinality(DOMAIN m[0])

\* np.flip(v) of a 1-D slice
Flip1D(v) == LET n == Cardinality(DOMAIN v) IN [i \in 0..(n - 1) |-> v[n - 1 - i]]
\* np.flip(m, 0) / np.flip(m, 1) of a 2-D array
FlipAxis0(m) == LET r == Rows(m) IN [i \in 0..(r - 1) |-> m[r - 1 - i]]
FlipAxis1(m) == LET c == Cols(m) IN [i \in DOMAIN m |-> [j \in 0..(c - 1) |-> m[i][c - 1 - j]]]
\* np.flip(m) of a 2-D array: every axis reversed
Flip2D(m) == FlipAxis0(FlipAxis1(m))
Transpose(m) == [i \in 0..(Cols(m) - 1) |-> [j \in 0..(Rows(m) - 1) |-> m[j][i]]]

\* np.rot90(m, k): k quarter turns counter-clockwise
Rot90(m, k) ==
    LET q == k % 4 IN
    CASE q = 0 -> m
      [] q = 1 -> Transpose(FlipAxis1(m))
      [] q = 2 -> FlipAxis1(FlipAxis0(m))
      [] q = 3 -> FlipAxis1(Transpose(m))

\* m[y]  and  m[y] = row
Row(m, y) == m[y]
SetRow(m, y, row) == [i \in DOMAIN m |-> IF i = y THEN row ELSE m[i]]
\* m[:, x]  and  m[:, x] = col
Col(m, x) == [y \in DOMAIN m |-> m[y][x]]
SetCol(m, x, col) ==
    [y \in DOMAIN m |-> [j \in DOMAIN m[y] |-> IF j = x THEN col[y] ELSE m[y][j]]]
\* m[lo:hi]  and  m[lo:hi] = sub     (rows lo .. hi-1)
RowsOf(m, lo, hi) == [i \in 0..(hi - lo - 1) |-> m[lo + i]]
SetRows(m, lo, hi, sub) ==
    [y \in DOMAIN m |-> IF lo <= y /\ y < hi THEN sub[y - lo] ELSE m[y]]
\* m[:, lo:hi]  and  m[:, lo:hi] = sub     (columns lo .. hi-1)
ColsOf(m, lo, hi) == [y \in DOMAIN m |-> [j \in 0..(hi - lo - 1) |-> m[y][lo + j]]]
SetCols(m, lo, hi, sub) ==
    [y \in DOMAIN m |->
        [x \in DOMAIN m[y] |-> IF lo <= x /\ x < hi THEN sub[y][x - lo] ELSE m[y][x]]]

(* ------------------------------- state -------------------------------- *)

VARIABLES
    size,      \* self.size
    faces,     \* self.faces: the six arrays of __init__, in the order A..F
    turn,      \* per attribute A..F: quarter turns by which it views its array
    labelled,  \* init_arange has been called
    calls,     \* rotation requests made so far
    call,      \* the last call made on the cube and its argument
    outcome,   \* how that call ended: "returned" or the exception raised
    before     \* the cube as it was when that call was made

vars == <<size, faces, turn, labelled, calls, call, outcome, before>>

\* Position of each attribute's array in self.faces
iA == 1
iB == 2
iC == 3
iD == 4
iE == 5
iF == 6
FaceIds == 1..6

\* The cube as a value
Cube == [size |-> size, faces |-> faces, turn |-> turn]

\* What attribute k of cube c reads: its array seen through its rot90 views
Attr(c, k) == Rot90(c.faces[k], c.turn[k])
\* self.A .. self.F of cube c
Attrs(c) == Computed([k \in FaceIds |-> Attr(c, k)])
\* Cube c after the attributes were written (through the views) to read v
WriteThrough(c, v) ==
    [size |-> c.size,
     faces |-> Computed([k \in FaceIds |-> Rot90(v[k], 4 - c.turn[k])]),
     turn |-> c.turn]
\* self.X = np.rot90(self.X, k): the attribute becomes a further rotated view
Rebind(c, k, q) ==
    [size |-> c.size,
     faces |-> c.faces,
     turn |-> Computed([j \in FaceIds |-> IF j = k THEN (c.turn[j] + q) % 4 ELSE c.turn[j]])]

\* self.X = g (with g a slice assignment into self.X already applied)
Put(v, k, g) == [j \in FaceIds |-> IF j = k THEN g ELSE v[j]]

\* The current attributes
A == Attr(Cube, iA)
B == Attr(Cube, iB)
C == Attr(Cube, iC)
D == Attr(Cube, iD)
E == Attr(Cube, iE)
F == Attr(Cube, iF)

(* ----------------------------- rotate_row ----------------------------- *)

\* RowOuterStep with tmpB = self.B[-1] taken without np.copy: tmpB is then a
\* view of B's row and reads what the first assignment wrote there.
RowOuterStepNoCopy(v) ==
    LET last == Rows(v[iB]) - 1
        v1 == Put(v, iB, SetRow(v[iB], last, Row(v[iE], last)))
        v2 == Put(v1, iE, SetRow(v1[iE], last, Row(v1[iD], last)))
        v3 == Put(v2, iD, SetRow(v2[iD], last, Row(v2[iC], last)))
    IN  Put(v3, iC, SetRow(v3[iC], last, Row(v3[iB], last)))

\* One pass of the loop body of the branch n in (1, 2, 3)
RowOuterStep(v) ==
    LET last == Rows(v[iB]) - 1
        tmpB == Row(v[iB], last)
        v1 == Put(v, iB, SetRow(v[iB], last, Row(v[iE], last)))
        v2 == Put(v1, iE, SetRow(v1[iE], last, Row(v1[iD], last)))
        v3 == Put(v2, iD, SetRow(v2[iD], last, Row(v2[iC], last)))
    IN  Put(v3, iC, SetRow(v3[iC], last, tmpB))
\* One pass of the loop body of the branch n in (4, 5, 6)
RowInnerStep(v) ==
    LET last == Rows(v[iB]) - 1
        tmpB == RowsOf(v[iB], 0, last)
        v1 == Put(v, iB, SetRows(v[iB], 0, last, RowsOf(v[iE], 0, last)))
        v2 == Put(v1, iE, SetRows(v1[iE], 0, last, RowsOf(v1[iD], 0, last)))
        v3 == Put(v2, iD, SetRows(v2[iD], 0, last, RowsOf(v2[iC], 0, last)))
    IN  Put(v3, iC, SetRows(v3[iC], 0, last, tmpB))
RECURSIVE RowOuterLoop(_, _)
\* for i in range(n): the loop body, k times
RowOuterLoop(v, k) ==
    IF k <= 0 THEN v ELSE RowOuterLoop(Computed(RowOuterStep(v)), k - 1)

RECURSIVE RowInnerLoop(_, _)
\* for i in range(n - 3): the loop body, k times
RowInnerLoop(v, k) ==
    IF k <= 0 THEN v ELSE RowInnerLoop(Computed(RowInnerStep(v)), k - 1)

\* rotate_row turning the cap F the other way: np.rot90(self.F, n)
RotateRowCapOtherWay(c, n) ==
    IF n \in {1, 2, 3}
    THEN Rebind(WriteThrough(c, RowOuterLoop(Attrs(c), n)), iF, n)
    ELSE IF n \in {4, 5, 6}
    THEN Rebind(WriteThrough(c, RowInnerLoop(Attrs(c), n - 3)), iA, n - 3)
    ELSE c

\* rotate_row whose second branch loops range(n) instead of range(n - 3)
RotateRowLoopN(c, n) ==
    IF n \in {1, 2, 3}
    THEN Rebind(WriteThrough(c, RowOuterLoop(Attrs(c), n)), iF, 4 - n)
    ELSE IF n \in {4, 5, 6}
    THEN Rebind(WriteThrough(c, RowInnerLoop(Attrs(c), n)), iA, n - 3)
    ELSE c

\* rotate_row splitting the repeat counts by the cube's size: 1..size the
\* first branch with the cap F turned size + 1 - n, size+1..2*size the second
RotateRowSplitBySize(c, n) ==
    IF n \in 1..c.size
    THEN Rebind(WriteThrough(c, RowOuterLoop(Attrs(c), n)), iF, c.size + 1 - n)
    ELSE IF n \in (c.size + 1)..(2 * c.size)
    THEN Rebind(WriteThrough(c, RowInnerLoop(Attrs(c), n - c.size)), iA, n - c.size)
    ELSE c

RotateRow(c, n) ==
    IF n \in {1, 2, 3}
    THEN Rebind(WriteThrough(c, RowOuterLoop(Attrs(c), n)), iF, 4 - n)
    ELSE IF n \in {4, 5, 6}
    THEN Rebind(WriteThrough(c, RowInnerLoop(Attrs(c), n - 3)), iA, n - 3)
    ELSE c

(* ---------------------------- rotate_column --------------------------- *)

\* ColumnOuterStep writing tmpA into E without np.flip
ColumnOuterStepNoFlip(v) ==
    LET last == Cols(v[iA]) - 1
        tmpA == Col(v[iA], last)
        v1 == Put(v, iA, SetCol(v[iA], last, Col(v[iC], last)))
        v2 == Put(v1, iC, SetCol(v1[iC], last, Col(v1[iF], last)))
        v3 == Put(v2, iF, SetCol(v2[iF], last, Flip1D(Col(v2[iE], 0))))
    IN  Put(v3, iE, SetCol(v3[iE], 0, tmpA))

ColumnOuterStep(v) ==
    LET last == Cols(v[iA]) - 1
        tmpA == Col(v[iA], last)
        v1 == Put(v, iA, SetCol(v[iA], last, Col(v[iC], last)))
        v2 == Put(v1, iC, SetCol(v1[iC], last, Col(v1[iF], last)))
        v3 == Put(v2, iF, SetCol(v2[iF], last, Flip1D(Col(v2[iE], 0))))
    IN  Put(v3, iE, SetCol(v3[iE], 0, Flip1D(tmpA)))
ColumnInnerStep(v) ==
    LET n == Cols(v[iA])
        tmpA == ColsOf(v[iA], 0, n - 1)
        v1 == Put(v, iA, SetCols(v[iA], 0, n - 1, ColsOf(v[iC], 0, n - 1)))
        v2 == Put(v1, iC, SetCols(v1[iC], 0, n - 1, ColsOf(v1[iF], 0, n - 1)))
        v3 == Put(v2, iF, SetCols(v2[iF], 0, n - 1, Flip2D(ColsOf(v2[iE], 1, n))))
    IN  Put(v3, iE, SetCols(v3[iE], 1, n, Flip2D(tmpA)))
RECURSIVE ColumnOuterLoop(_, _)
\* for i in range(n): the loop body, k times
ColumnOuterLoop(v, k) ==
    IF k <= 0 THEN v ELSE ColumnOuterLoop(Computed(ColumnOuterStep(v)), k - 1)

RECURSIVE ColumnInnerLoop(_, _)
\* for i in range(n - 3): the loop body, k times
ColumnInnerLoop(v, k) ==
    IF k <= 0 THEN v ELSE ColumnInnerLoop(Computed(ColumnInnerStep(v)), k - 1)

\* rotate_column turning the cap D the other way: np.rot90(self.D, n)
RotateColumnCapOtherWay(c, n) ==
    IF n \in {1, 2, 3}
    THEN Rebind(WriteThrough(c, ColumnOuterLoop(Attrs(c), n)), iD, n)
    ELSE IF n \in {4, 5, 6}
    THEN Rebind(WriteThrough(c, ColumnInnerLoop(Attrs(c), n - 3)), iB, n - 3)
    ELSE c

RotateColumn(c, n) ==
    IF n \in {1, 2, 3}
    THEN Rebind(WriteThrough(c, ColumnOuterLoop(Attrs(c), n)), iD, 4 - n)
    ELSE IF n \in {4, 5, 6}
    THEN Rebind(WriteThrough(c, ColumnInnerLoop(Attrs(c), n - 3)), iB, n - 3)
    ELSE c

(* ----------------------------- rotate_level --------------------------- *)

\* LevelOuterStep writing tmpA into B without np.flip
LevelOuterStepNoFlip(v) ==
    LET last == Rows(v[iA]) - 1
        tmpA == Row(v[iA], 0)
        v1 == Put(v, iA, SetRow(v[iA], 0, Col(v[iD], last)))
        v2 == Put(v1, iD, SetCol(v1[iD], last, Flip1D(Row(v1[iF], last))))
        v3 == Put(v2, iF, SetRow(v2[iF], last, Col(v2[iB], 0)))
    IN  Put(v3, iB, SetCol(v3[iB], 0, tmpA))

\* LevelOuterStep taking the columns of B and D on the side of C: the last
\* column of B and the first column of D
LevelOuterStepFrontSide(v) ==
    LET last == Rows(v[iA]) - 1
        tmpA == Row(v[iA], 0)
        v1 == Put(v, iA, SetRow(v[iA], 0, Col(v[iD], 0)))
        v2 == Put(v1, iD, SetCol(v1[iD], 0, Flip1D(Row(v1[iF], last))))
        v3 == Put(v2, iF, SetRow(v2[iF], last, Col(v2[iB], last)))
    IN  Put(v3, iB, SetCol(v3[iB], last, Flip1D(tmpA)))

LevelOuterStep(v) ==
    LET last == Rows(v[iA]) - 1
        tmpA == Row(v[iA], 0)
        v1 == Put(v, iA, SetRow(v[iA], 0, Col(v[iD], last)))
        v2 == Put(v1, iD, SetCol(v1[iD], last, Flip1D(Row(v1[iF], last))))
        v3 == Put(v2, iF, SetRow(v2[iF], last, Col(v2[iB], 0)))
    IN  Put(v3, iB, SetCol(v3[iB], 0, Flip1D(tmpA)))
LevelInnerStep(v) ==
    LET n == Rows(v[iA])
        tmpA == RowsOf(v[iA], 1, n)
        v1 == Put(v, iA, SetRows(v[iA], 1, n, Rot90(ColsOf(v[iD], 0, n - 1), 1)))
        v2 == Put(v1, iD, SetCols(v1[iD], 0, n - 1, Rot90(RowsOf(v1[iF], 0, n - 1), 1)))
        v3 == Put(v2, iF, SetRows(v2[iF], 0, n - 1, Rot90(ColsOf(v2[iB], 1, n), 1)))
    IN  Put(v3, iB, SetCols(v3[iB], 1, n, Rot90(tmpA, 1)))
RECURSIVE LevelOuterLoop(_, _)
\* for i in range(n): the loop body, k times
LevelOuterLoop(v, k) ==
    IF k <= 0 THEN v ELSE LevelOuterLoop(Computed(LevelOuterStep(v)), k - 1)

RECURSIVE LevelInnerLoop(_, _)
\* for i in range(n - 3): the loop body, k times
LevelInnerLoop(v, k) ==
    IF k <= 0 THEN v ELSE LevelInnerLoop(Computed(LevelInnerStep(v)), k - 1)

\* rotate_level turning the cap E by one quarter turn whatever n is:
\* np.rot90(self.E, 3)
RotateLevelCapOnce(c, n) ==
    IF n \in {1, 2, 3}
    THEN Rebind(WriteThrough(c, LevelOuterLoop(Attrs(c), n)), iE, 3)
    ELSE IF n \in {4, 5, 6}
    THEN Rebind(WriteThrough(c, LevelInnerLoop(Attrs(c), n - 3)), iC, n - 3)
    ELSE c

RotateLevel(c, n) ==
    IF n \in {1, 2, 3}
    THEN Rebind(WriteThrough(c, LevelOuterLoop(Attrs(c), n)), iE, 4 - n)
    ELSE IF n \in {4, 5, 6}
    THEN Rebind(WriteThrough(c, LevelInnerLoop(Attrs(c), n - 3)), iC, n - 3)
    ELSE c

(* ------------------------ __init__, init_arange ----------------------- *)

Zeros(n) == [y \in 0..(n - 1) |-> [x \in 0..(n - 1) |-> 0]]

\* RubikCube(size)
NewCube(n) ==
    [size |-> n, faces |-> [k \in FaceIds |-> Zeros(n)], turn |-> [k \in FaceIds |-> 0]]

\* init_arange: the counter i runs over self.faces, rows, columns
ArangeFaces(n) ==
    [k \in FaceIds |-> [y \in 0..(n - 1) |-> [x \in 0..(n - 1) |-> (k - 1) * n * n + y * n + x]]]

NoCall == [op |-> "none", arg |-> 0]

Init ==
    /\ size \in Sizes
    /\ faces = NewCube(size).faces
    /\ turn = NewCube(size).turn
    /\ labelled = FALSE
    /\ calls = 0
    /\ call = NoCall
    /\ outcome = "returned"
    /\ before = NewCube(size)

\* __main__: rubikcube = RubikCube(size=3); rubikcube.init_arange()
InitMain ==
    /\ size = 3
    /\ faces = ArangeFaces(3)
    /\ turn = NewCube(3).turn
    /\ labelled = TRUE
    /\ calls = 0
    /\ call = [op |-> "init_arange", arg |-> 0]
    /\ outcome = "returned"
    /\ before = NewCube(3)

\* The cube becomes c
Becomes(c) ==
    /\ faces' = c.faces
    /\ turn' = c.turn
    /\ UNCHANGED size

\* The caller's record of a call: what was called with which argument, how it
\* ended, and the cube it was made on
Logged(op, arg, res) ==
    /\ call' = [op |-> op, arg |-> arg]
    /\ outcome' = res
    /\ before' = Cube

\* No record is kept
Unlogged == UNCHANGED <<call, outcome, before>>

InitArange ==
    /\ Becomes([size |-> size, faces |-> ArangeFaces(size), turn |-> turn])
    /\ labelled' = TRUE
    /\ UNCHANGED calls

RotateRowCall(n) ==
    /\ calls < MaxCalls
    /\ calls' = calls + 1
    /\ Becomes(RotateRow(Cube, n))
    /\ UNCHANGED labelled

RotateColumnCall(n) ==
    /\ calls < MaxCalls
    /\ calls' = calls + 1
    /\ Becomes(RotateColumn(Cube, n))
    /\ UNCHANGED labelled

RotateLevelCall(n) ==
    /\ calls < MaxCalls
    /\ calls' = calls + 1
    /\ Becomes(RotateLevel(Cube, n))
    /\ UNCHANGED labelled

\* The cube under any sequence of direct calls
Next ==
    \/ InitArange /\ Unlogged
    \/ \E n \in 0..MaxN : RotateRowCall(n) /\ Unlogged
    \/ \E n \in 0..MaxN : RotateColumnCall(n) /\ Unlogged
    \/ \E n \in 0..MaxN : RotateLevelCall(n) /\ Unlogged

Spec == Init /\ [][Next]_vars

\* The cube of __main__ under any sequence of rotations
NextMain ==
    \/ \E n \in 0..MaxN : RotateRowCall(n) /\ Unlogged
    \/ \E n \in 0..MaxN : RotateColumnCall(n) /\ Unlogged
    \/ \E n \in 0..MaxN : RotateLevelCall(n) /\ Unlogged

SpecMain == InitMain /\ [][NextMain]_vars

\* The same calls, each with the caller's record of it.  None of the three
\* rotations has a raise statement: each call returns.
NextCalls ==
    \/ InitArange /\ Logged("init_arange", 0, "returned")
    \/ \E n \in 0..MaxN : RotateRowCall(n) /\ Logged("rotate_row", n, "returned")
    \/ \E n \in 0..MaxN : RotateColumnCall(n) /\ Logged("rotate_column", n, "returned")
    \/ \E n \in 0..MaxN : RotateLevelCall(n) /\ Logged("rotate_level", n, "returned")

SpecCalls == Init /\ [][NextCalls]_vars

(* ------------------------------- encrypt ------------------------------ *)

\* A key is a string: a sequence of one-character strings.
Digits == {"0", "1", "2", "3", "4", "5", "6", "7", "8", "9"}

\* int(ch) of a one-character string that is a decimal digit
DigitValue(ch) ==
    CASE ch = "0" -> 0 [] ch = "1" -> 1 [] ch = "2" -> 2 [] ch = "3" -> 3
      [] ch = "4" -> 4 [] ch = "5" -> 5 [] ch = "6" -> 6 [] ch = "7" -> 7
      [] ch = "8" -> 8 [] ch = "9" -> 9

RECURSIVE Split(_)
\* key.split('-'): the pieces between the separators, empty pieces included
Split(key) ==
    IF \A i \in 1..Len(key) : key[i] # "-"
    THEN <<key>>
    ELSE LET i == CHOOSE j \in 1..Len(key) :
                      key[j] = "-" /\ \A h \in 1..(j - 1) : key[h] # "-"
         IN  <<SubSeq(key, 1, i - 1)>> \o Split(SubSeq(key, i + 1, Len(key)))

\* Dispatch with the 'C' branch calling rotate_row
DispatchColumnAsRow(c, letter, n) ==
    CASE letter = "R" -> RotateRow(c, n)
      [] letter = "C" -> RotateRow(c, n)
      [] letter = "L" -> RotateLevel(c, n)

\* self.rotate_xxx(int(move[1])) for the family the letter selects
Dispatch(c, letter, n) ==
    CASE letter = "R" -> RotateRow(c, n)
      [] letter = "C" -> RotateColumn(c, n)
      [] letter = "L" -> RotateLevel(c, n)

\* EncryptMove raising on a letter that names no family
EncryptMoveStrict(c, move) ==
    IF Len(move) < 1 THEN [cube |-> c, outcome |-> "IndexError"]
    ELSE IF move[1] \notin {"R", "C", "L"} THEN [cube |-> c, outcome |-> "ValueError"]
    ELSE IF Len(move) < 2 THEN [cube |-> c, outcome |-> "IndexError"]
    ELSE IF move[2] \notin Digits THEN [cube |-> c, outcome |-> "ValueError"]
    ELSE [cube |-> Dispatch(c, move[1], DigitValue(move[2])), outcome |-> "returned"]

\* One pass of the loop body of encrypt on cube c: the cube it leaves and how
\* the pass ended.  move[0] and move[1] raise IndexError past the end of the
\* token, int() raises ValueError on a character that is no digit; both are
\* raised before the rotation is called.
EncryptMove(c, move) ==
    IF Len(move) < 1 THEN [cube |-> c, outcome |-> "IndexError"]
    ELSE IF move[1] \notin {"R", "C", "L"} THEN [cube |-> c, outcome |-> "returned"]
    ELSE IF Len(move) < 2 THEN [cube |-> c, outcome |-> "IndexError"]
    ELSE IF move[2] \notin Digits THEN [cube |-> c, outcome |-> "ValueError"]
    ELSE [cube |-> Dispatch(c, move[1], DigitValue(move[2])), outcome |-> "returned"]

RECURSIVE EncryptMovesKeepGoing(_, _)
\* EncryptMoves that notes the first exception and still runs the later tokens
EncryptMovesKeepGoing(c, moves) ==
    IF moves = <<>> THEN [cube |-> c, outcome |-> "returned"]
    ELSE LET r == EncryptMove(c, Head(moves))
             t == EncryptMovesKeepGoing(r.cube, Tail(moves))
         IN  IF r.outcome # "returned" THEN [cube |-> t.cube, outcome |-> r.outcome]
             ELSE t

RECURSIVE EncryptMoves(_, _)
\* for move in moves: ...   an exception ends the loop and the call
EncryptMoves(c, moves) ==
    IF moves = <<>> THEN [cube |-> c, outcome |-> "returned"]
    ELSE LET r == EncryptMove(c, Head(moves))
         IN  IF r.outcome # "returned" THEN r ELSE EncryptMoves(r.cube, Tail(moves))

\* encrypt(key)
Encrypt(c, key) == EncryptMoves(c, Split(key))

\* The tokens keys are made of: a family letter followed by one of Rests,
\* the empty token, and tokens with a letter that names no family.
Rests == {<<>>, <<"0">>, <<"1">>, <<"4">>, <<"7">>, <<"x">>, <<"1", "2">>, <<"0", "4">>}
Tokens ==
    {<<l>> \o r : l \in {"R", "C", "L"}, r \in Rests}
        \cup {<<>>, <<"X">>, <<"X", "3">>, <<"r", "1">>}

RECURSIVE Join(_)
\* '-'.join(tokens)
Join(toks) ==
    IF Len(toks) = 1 THEN toks[1] ELSE toks[1] \o <<"-">> \o Join(Tail(toks))

\* encrypt(key) called on the cube: the rotations made before an exception stay
EncryptCall(key) ==
    /\ calls + Len(Split(key)) <= MaxCalls
    /\ calls' = calls + Len(Split(key))
    /\ LET r == Encrypt(Cube, key) IN Becomes(r.cube) /\ Logged("encrypt", key, r.outcome)
    /\ UNCHANGED labelled

\* Keys of up to MaxCalls tokens applied to the cube of __main__
NextKey ==
    \E k \in 1..(MaxCalls - calls) : \E toks \in [1..k -> Tokens] : EncryptCall(Join(toks))

SpecKey == InitMain /\ [][NextKey]_vars

(* ======================================================================= *)
(*                               Properties                                *)
(* ======================================================================= *)

\* The cube after RubikCube(n) and init_arange()
Canonical(n) == [size |-> n, faces |-> ArangeFaces(n), turn |-> NewCube(n).turn]

\* A 3x3 grid written as three rows
Grid3(t) == [y \in 0..2 |-> [x \in 0..2 |-> t[y + 1][x + 1]]]

\* The cells of the size-3 cube: attribute, row, column
Cells3 == FaceIds \X (0..2) \X (0..2)

\* Cubes c and d read the same through A..F, cell for cell
SameCells(c, d) == Attrs(c) = Attrs(d)

Families == {"R", "C", "L"}
RotateCalls == {"rotate_row", "rotate_column", "rotate_level"}

(* ---- C1 ---------------------------------------------------------------- *)
\* C1: on a size-3 cube labelled by init_arange, after any sequence of
\* rotate_row / rotate_column / rotate_level calls every face is still 3x3
\* and the 54 cells hold each of the values 0..53 exactly once.
C1_Permutation ==
    (size = 3 /\ labelled) =>
        LET v == Attrs(Cube) IN
        /\ \A k \in FaceIds : DOMAIN v[k] = 0..2 /\ \A y \in 0..2 : DOMAIN v[k][y] = 0..2
        /\ \A val \in 0..53 :
              Cardinality({p \in Cells3 : v[p[1]][p[2]][p[3]] = val}) = 1

\* A labelled size-3 cube that two valid moves have scrambled
C1_Witness ==
    /\ size = 3 /\ labelled /\ calls = 2
    /\ Cube = RotateLevel(RotateColumn(Canonical(3), 2), 5)
    /\ \A k \in FaceIds : Attr(Cube, k) # Attr(Canonical(3), k)

(* ---- C2 ---------------------------------------------------------------- *)
\* C2: encrypt("R1") on the size-3 cube with the canonical labelling moves
\* Left's bottom row into Front's, Front's into Right's, Right's into Back's
\* and Back's into Left's, turns Bottom a quarter turn clockwise and leaves
\* Top and rows 0..1 of the four side faces as they were.
C2_GoldenR1 ==
    (call.op = "encrypt" /\ call.arg = <<"R", "1">> /\ before = Canonical(3)) =>
        /\ outcome = "returned"
        /\ A = Grid3(<<<<0, 1, 2>>, <<3, 4, 5>>, <<6, 7, 8>>>>)
        /\ B = Grid3(<<<<9, 10, 11>>, <<12, 13, 14>>, <<42, 43, 44>>>>)
        /\ C = Grid3(<<<<18, 19, 20>>, <<21, 22, 23>>, <<15, 16, 17>>>>)
        /\ D = Grid3(<<<<27, 28, 29>>, <<30, 31, 32>>, <<24, 25, 26>>>>)
        /\ E = Grid3(<<<<36, 37, 38>>, <<39, 40, 41>>, <<33, 34, 35>>>>)
        /\ F = Grid3(<<<<51, 48, 45>>, <<52, 49, 46>>, <<53, 50, 47>>>>)

\* encrypt("R1") has returned on the canonical size-3 cube and changed it
C2_Witness ==
    /\ call.op = "encrypt" /\ call.arg = <<"R", "1">> /\ before = Canonical(3)
    /\ size = 3 /\ calls = 1 /\ ~SameCells(Cube, before)

(* ---- C3 ---------------------------------------------------------------- *)
FourTimes(fam, c) == Dispatch(Dispatch(Dispatch(Dispatch(c, fam, 1), fam, 1), fam, 1), fam, 1)

\* C3: from every reachable state of the size-3 cube, four calls in a row of
\* rotate_row(1) lead back to exactly that state; likewise four calls of
\* rotate_column(1) and four calls of rotate_level(1).
C3_FullCycle ==
    size = 3 => \A fam \in Families : FourTimes(fam, Cube) = Cube

\* A scrambled labelled cube on which one, two and three quarter turns of
\* every family each give cells different from the cube's own
C3_Witness ==
    /\ size = 3 /\ labelled /\ calls = 2
    /\ Cube = RotateColumn(RotateLevel(Canonical(3), 1), 4)
    /\ \A fam \in Families :
          LET c1 == Dispatch(Cube, fam, 1)
              c2 == Dispatch(c1, fam, 1)
              c3 == Dispatch(c2, fam, 1)
          IN  ~SameCells(c1, Cube) /\ ~SameCells(c2, Cube) /\ ~SameCells(c3, Cube)

(* ---- C4 ---------------------------------------------------------------- *)
\* The repeat count of the same half that completes n to a full cycle
Complement(n) == IF n <= 3 THEN 4 - n ELSE 10 - n

\* C4: for every family X, every n in 1..6 and every reachable state of the
\* size-3 cube, X(n) followed by X(n') with n' = 4-n (n in 1..3) or
\* n' = 10-n (n in 4..6) leaves the cube exactly in that state.
C4_Inverse ==
    size = 3 =>
        \A fam \in Families : \A n \in 1..6 :
            Dispatch(Dispatch(Cube, fam, n), fam, Complement(n)) = Cube

\* The labelled cube after rotate_level(2) and rotate_row(6): rotate_row(4),
\* the complement of 6, restores the cube rotate_row(6) was called on
C4_Witness ==
    /\ size = 3 /\ labelled /\ calls = 2
    /\ Cube = RotateRow(RotateLevel(Canonical(3), 2), 6)
    /\ ~SameCells(Cube, RotateLevel(Canonical(3), 2))
    /\ RotateRow(Cube, Complement(6)) = RotateLevel(Canonical(3), 2)

(* ---- C5 ---------------------------------------------------------------- *)
\* C5 as stated: every outer-case move X(n), n in 1..3, is undone by some
\* inner-case move X(n'), n' in 4..6, of the same family.
C5_UndoneByInner ==
    (size = 3 /\ labelled) =>
        \A fam \in Families : \A n \in 1..3 : \E m \in 4..6 :
            SameCells(Dispatch(Dispatch(Cube, fam, n), fam, m), Cube)

\* C5 (amended): on the size-3 cube every outer-case move X(n), n in 1..3, is
\* undone by the outer-case move X(4 - n) of the same family, and on a
\* labelled cube by no inner-case move X(n'), n' in 4..6.
C5_UndoneByOuter ==
    size = 3 =>
        \A fam \in Families : \A n \in 1..3 :
            LET c1 == Dispatch(Cube, fam, n) IN
            /\ SameCells(Dispatch(c1, fam, 4 - n), Cube)
            /\ labelled => \A m \in 4..6 : ~SameCells(Dispatch(c1, fam, m), Cube)

\* The labelled cube after rotate_row(2) and rotate_column(3): rotate_column(1)
\* gives back the cells rotate_column(3) was called on, rotate_column(4..6) do not
C5_Witness ==
    /\ size = 3 /\ labelled /\ calls = 2
    /\ Cube = RotateColumn(RotateRow(Canonical(3), 2), 3)
    /\ ~SameCells(Cube, RotateRow(Canonical(3), 2))
    /\ SameCells(RotateColumn(Cube, 1), RotateRow(Canonical(3), 2))
    /\ \A m \in 4..6 : ~SameCells(RotateColumn(Cube, m), RotateRow(Canonical(3), 2))
(* ---- C6 ---------------------------------------------------------------- *)
\* C6: on the size-3 cube a move with n = 0 or n > 6 is rejected with an
\* InvalidMove error, and the cube after it is, cell for cell, the cube
\* before it.
C6_InvalidMoveRejected ==
    (size = 3 /\ call.op \in RotateCalls /\ call.arg \notin 1..6) =>
        /\ outcome = "InvalidMove"
        /\ SameCells(Cube, before)

(* ---- C7 ---------------------------------------------------------------- *)
RECURSIVE DecimalValue(_)
\* The integer a string of decimal digits denotes
DecimalValue(ds) ==
    IF ds = <<>> THEN 0
    ELSE 10 * DecimalValue(SubSeq(ds, 1, Len(ds) - 1)) + DigitValue(ds[Len(ds)])

\* A family letter followed by one or more decimal digits
LetterDigits(tok) ==
    /\ Len(tok) >= 2
    /\ tok[1] \in Families
    /\ \A i \in 2..Len(tok) : tok[i] \in Digits

\* C7: for a key token made of a letter in {R, C, L} and one or more digits,
\* encrypt has exactly the effect of the letter's rotation called with the
\* integer value of all the characters after the letter.
C7_WholeRemainderParsed ==
    call.op = "encrypt" =>
        (LetterDigits(call.arg) =>
            /\ outcome = "returned"
            /\ SameCells(Cube,
                         Dispatch(before, call.arg[1], DecimalValue(Tail(call.arg)))))

(* ---- C8 ---------------------------------------------------------------- *)
\* A token on which key application fails: the empty token, and a family
\* letter that no decimal digit follows
Fails(tok) ==
    \/ tok = <<>>
    \/ tok[1] \in Families /\ (Len(tok) < 2 \/ tok[2] \notin Digits)

RECURSIVE ApplyInOrder(_, _)
\* The cube after the rotation each token asks for was called, token by token
ApplyInOrder(c, toks) ==
    IF toks = <<>> THEN c
    ELSE LET tok == Head(toks)
             c1 == IF tok[1] = "R" THEN RotateRow(c, DigitValue(tok[2]))
                   ELSE IF tok[1] = "C" THEN RotateColumn(c, DigitValue(tok[2]))
                   ELSE IF tok[1] = "L" THEN RotateLevel(c, DigitValue(tok[2]))
                   ELSE c
         IN  ApplyInOrder(c1, Tail(toks))

\* C8: when the k-th token of a key makes key application fail, encrypt ends
\* with the error, and the cube is exactly the cube after tokens 1..k-1 were
\* applied in order: no later token is applied and no move is applied in part.
C8_FailureMidKey ==
    call.op = "encrypt" =>
        LET toks == Split(call.arg) IN
        (\E k \in 1..Len(toks) : Fails(toks[k])) =>
            LET k == CHOOSE j \in 1..Len(toks) :
                         Fails(toks[j]) /\ \A h \in 1..(j - 1) : ~Fails(toks[h])
            IN  /\ outcome \in {"IndexError", "ValueError"}
                /\ Cube = ApplyInOrder(before, SubSeq(toks, 1, k - 1))

\* encrypt("R1-Rx") has raised ValueError with rotate_row(1) applied
C8_Witness ==
    /\ call.op = "encrypt" /\ call.arg = <<"R", "1", "-", "R", "x">>
    /\ outcome = "ValueError"
    /\ Cube = RotateRow(before, 1)
    /\ ~SameCells(Cube, before)

(* ---- C9 ---------------------------------------------------------------- *)
\* A non-empty token whose first character names no family
Unrecognized(tok) == tok # <<>> /\ tok[1] \notin Families
Recognized(tok) == ~Unrecognized(tok)

\* C9: a non-empty token whose first character is not R, C or L raises no
\* error and leaves the cube unchanged, and the later tokens are still
\* applied: encrypt ends as it does on the same tokens with the unrecognized
\* ones removed, and with the same cube.
C9_UnrecognizedSkipped ==
    call.op = "encrypt" =>
        LET toks == Split(call.arg)
            r == EncryptMoves(before, SelectSeq(toks, Recognized))
        IN  (\E k \in 1..Len(toks) : Unrecognized(toks[k])) =>
                /\ Cube = r.cube
                /\ outcome = r.outcome
                /\ (\A k \in 1..Len(toks) : Unrecognized(toks[k])) =>
                       outcome = "returned" /\ Cube = before

\* encrypt("X3-R1") has returned with rotate_row(1) applied
C9_Witness ==
    /\ call.op = "encrypt" /\ call.arg = <<"X", "3", "-", "R", "1">>
    /\ outcome = "returned"
    /\ Cube = RotateRow(before, 1)
    /\ ~SameCells(Cube, before)

(* ---- C10 --------------------------------------------------------------- *)
KeyRC == <<"R", "1", "-", "C", "1">>
KeyCR == <<"C", "1", "-", "R", "1">>

\* C10: on the canonical size-3 cube rotate_row(1) then rotate_column(1)
\* gives other cells than rotate_column(1) then rotate_row(1), and
\* encrypt("R1-C1") gives the former, other cells than encrypt("C1-R1").
C10_OrderMatters ==
    (call.op = "encrypt" /\ call.arg = KeyRC /\ before = Canonical(3)) =>
        /\ Cube = RotateColumn(RotateRow(before, 1), 1)
        /\ ~SameCells(RotateColumn(RotateRow(before, 1), 1),
                      RotateRow(RotateColumn(before, 1), 1))
        /\ ~SameCells(Cube, Encrypt(before, KeyCR).cube)

\* encrypt("R1-C1") has returned on the canonical size-3 cube
C10_Witness ==
    /\ call.op = "encrypt" /\ call.arg = KeyRC /\ before = Canonical(3)
    /\ outcome = "returned" /\ calls = 2

(* ---- C11 --------------------------------------------------------------- *)
\* The cells of one face of the size-3 cube
Face(k) == {k} \X (0..2) \X (0..2)

\* The value cube c reads at cell p
At(c, p) == Attr(c, p[1])[p[2]][p[3]]

\* The cells at which cubes c and d read different values
Changed(c, d) == {p \in Cells3 : At(c, p) # At(d, p)}

\* First row of Top, last column of Left, last row of Bottom, first column
\* of Right
LevelRingFrontSide ==
    {<<iA, 0, x>> : x \in 0..2} \cup {<<iB, y, 2>> : y \in 0..2}
        \cup {<<iF, 2, x>> : x \in 0..2} \cup {<<iD, y, 0>> : y \in 0..2}

\* First row of Top, first column of Left, last row of Bottom, last column
\* of Right
LevelRingBackSide ==
    {<<iA, 0, x>> : x \in 0..2} \cup {<<iB, y, 0>> : y \in 0..2}
        \cup {<<iF, 2, x>> : x \in 0..2} \cup {<<iD, y, 2>> : y \in 0..2}

\* The cell whose value a cell holds after one quarter turn of the layer
\* next to Back: Right -> Top -> Left -> Bottom -> Right along the ring, Back
\* a quarter turn clockwise, every other cell its own
LevelBackSource(p) ==
    LET k == p[1]
        y == p[2]
        x == p[3]
    IN  IF k = iA /\ y = 0 THEN <<iD, x, 2>>
        ELSE IF k = iD /\ x = 2 THEN <<iF, 2, 2 - y>>
        ELSE IF k = iF /\ y = 2 THEN <<iB, x, 0>>
        ELSE IF k = iB /\ x = 0 THEN <<iA, 0, 2 - y>>
        ELSE IF k = iE THEN <<iE, 2 - x, y>>
        ELSE p

RECURSIVE LevelBackSourceN(_, _)
LevelBackSourceN(p, n) ==
    IF n <= 0 THEN p ELSE LevelBackSourceN(LevelBackSource(p), n - 1)

\* C11 as stated: on the size-3 cube rotate_level(n), n in 1..3, changes
\* cells only in the first row of Top, the last column of Left, the last row
\* of Bottom, the first column of Right and one of the faces Front and Back.
C11_LevelFrontSideSlices ==
    (size = 3 /\ call.op = "rotate_level" /\ call.arg \in 1..3) =>
        \E cap \in {iC, iE} :
            Changed(Cube, before) \subseteq (LevelRingFrontSide \cup Face(cap))

\* C11 (amended): on the size-3 cube rotate_level(n), n in 1..3, cycles the
\* first row of Top, the FIRST column of Left, the last row of Bottom and the
\* LAST column of Right by n steps and turns Back by n quarter turns
\* clockwise; every other cell, in particular the last column of Left, the
\* first column of Right and all of Front, is unchanged.
C11_LevelBackSideSlices ==
    (size = 3 /\ call.op = "rotate_level" /\ call.arg \in 1..3) =>
        /\ outcome = "returned"
        /\ \A p \in Cells3 : At(Cube, p) = At(before, LevelBackSourceN(p, call.arg))
        /\ Changed(Cube, before) \subseteq (LevelRingBackSide \cup Face(iE))

\* rotate_level(1) has returned on the canonical size-3 cube: the twelve ring
\* cells next to Back and the eight outer cells of Back have changed
C11_Witness ==
    /\ size = 3 /\ call.op = "rotate_level" /\ call.arg = 1
    /\ before = Canonical(3)
    /\ Changed(Cube, before) = LevelRingBackSide \cup (Face(iE) \ {<<iE, 1, 1>>})

(* ---- C12 --------------------------------------------------------------- *)
\* The key letter of the family a rotation belongs to
FamilyOf(op) ==
    CASE op = "rotate_row" -> "R"
      [] op = "rotate_column" -> "C"
      [] op = "rotate_level" -> "L"

RECURSIVE Repeated(_, _, _, _)
\* The cube after k calls in a row of the rotation of family fam with count n
Repeated(c, fam, n, k) ==
    IF k <= 0 THEN c ELSE Repeated(Dispatch(c, fam, n), fam, n, k - 1)

\* C12: on the size-3 cube a call X(n) with n in 1..3 leaves exactly the
\* state that n calls in a row of X(1) leave, and a call X(n) with n in 4..6
\* exactly the state that n - 3 calls in a row of X(4) leave, for each of
\* rotate_row, rotate_column, rotate_level and from every state.
C12_RepeatedQuarterTurns ==
    (size = 3 /\ call.op \in RotateCalls /\ call.arg \in 1..6) =>
        /\ outcome = "returned"
        /\ Cube = IF call.arg <= 3
                  THEN Repeated(before, FamilyOf(call.op), 1, call.arg)
                  ELSE Repeated(before, FamilyOf(call.op), 4, call.arg - 3)

\* rotate_column(5) has returned on the labelled cube that rotate_level(2)
\* left: it reads as after two calls of rotate_column(4), not as after one
C12_Witness ==
    /\ size = 3 /\ labelled
    /\ call.op = "rotate_column" /\ call.arg = 5
    /\ before = RotateLevel(Canonical(3), 2)
    /\ SameCells(Cube, RotateColumn(RotateColumn(before, 4), 4))
    /\ ~SameCells(Cube, RotateColumn(before, 4))
    /\ ~SameCells(Cube, before)

(* ---- C13 --------------------------------------------------------------- *)
\* The outer slices and the outer cap of each family on the size-2 cube: the
\* cells the branch n in (1, 2, 3) works on
Outer2(op) ==
    CASE op = "rotate_row" ->
            {<<k, 1, x>> : k \in {iB, iC, iD, iE}, x \in 0..1}
                \cup {<<iF, y, x>> : y \in 0..1, x \in 0..1}
      [] op = "rotate_column" ->
            {<<k, y, 1>> : k \in {iA, iC, iF}, y \in 0..1} \cup {<<iE, y, 0>> : y \in 0..1}
                \cup {<<iD, y, x>> : y \in 0..1, x \in 0..1}
      [] op = "rotate_level" ->
            {<<iA, 0, x>> : x \in 0..1} \cup {<<iD, y, 1>> : y \in 0..1}
                \cup {<<iF, 1, x>> : x \in 0..1} \cup {<<iB, y, 0>> : y \in 0..1}
                \cup {<<iE, y, x>> : y \in 0..1, x \in 0..1}

\* The cells of the size-2 cube
Cells2 == FaceIds \X (0..1) \X (0..1)

\* The cells of the size-2 cube at which cubes c and d read different values
Changed2(c, d) == {p \in Cells2 : At(c, p) # At(d, p)}

\* C13 as stated: on a size-2 cube rotate_row(3) is an inner-case move: it
\* moves row 0 of Left into Front, of Front into Right, of Right into Back
\* and of Back into Left, turns Top one quarter turn and leaves the last rows
\* and Bottom unchanged; rotate_column(3) and rotate_level(3) likewise leave
\* their outer slices and outer cap unchanged; n = 5 and n = 6 are outside
\* the valid range and leave the cube as it is.
C13_SplitBySize ==
    (size = 2 /\ call.op \in RotateCalls) =>
        LET a == Attrs(Cube)
            b == Attrs(before)
        IN  /\ (call.arg = 3) => Changed2(Cube, before) \cap Outer2(call.op) = {}
            /\ (call.arg = 3 /\ call.op = "rotate_row") =>
                  /\ a[iC][0] = b[iB][0] /\ a[iD][0] = b[iC][0]
                  /\ a[iE][0] = b[iD][0] /\ a[iB][0] = b[iE][0]
                  /\ a[iA] = Rot90(b[iA], 1)
            /\ (call.arg \in {5, 6}) => SameCells(Cube, before)

\* C13 (amended): the split is the constant 3 whatever the cube's size.  On a
\* size-2 cube rotate_row(3) is an outer-case move: it moves the last row of
\* Front into Left, of Right into Front, of Back into Right and of Left into
\* Back (three steps of the cycle), turns Bottom one quarter turn
\* counter-clockwise (4 - 3) and leaves row 0 and Top unchanged;
\* rotate_column(3) and rotate_level(3) likewise change only their outer
\* slices and outer cap; n = 5 and n = 6 are inner-case moves: they change
\* no outer slice and no outer cap, and rotate_row(n) moves row 0 around the
\* side faces by n - 3 steps and turns Top by n - 3 quarter turns.
C13_SplitAtThree ==
    (size = 2 /\ call.op \in RotateCalls) =>
        LET a == Attrs(Cube)
            b == Attrs(before)
        IN  /\ outcome = "returned"
            /\ (call.arg = 3) => Changed2(Cube, before) \subseteq Outer2(call.op)
            /\ (call.arg = 3 /\ call.op = "rotate_row") =>
                  /\ a[iB][1] = b[iC][1] /\ a[iC][1] = b[iD][1]
                  /\ a[iD][1] = b[iE][1] /\ a[iE][1] = b[iB][1]
                  /\ a[iF] = Rot90(b[iF], 1)
            /\ (call.arg \in {5, 6}) => Changed2(Cube, before) \cap Outer2(call.op) = {}
            /\ (call.arg = 5 /\ call.op = "rotate_row") =>
                  /\ a[iB][0] = b[iD][0] /\ a[iC][0] = b[iE][0]
                  /\ a[iD][0] = b[iB][0] /\ a[iE][0] = b[iC][0]
                  /\ a[iA] = Rot90(b[iA], 2)
            /\ (call.arg = 6 /\ call.op = "rotate_row") =>
                  /\ a[iB][0] = b[iC][0] /\ a[iC][0] = b[iD][0]
                  /\ a[iD][0] = b[iE][0] /\ a[iE][0] = b[iB][0]
                  /\ a[iA] = Rot90(b[iA], 3)

\* rotate_row(3) has returned on the canonical size-2 cube: it has changed
\* the last rows of the four side faces and all of Bottom, and nothing else
C13_Witness ==
    /\ size = 2 /\ labelled
    /\ call.op = "rotate_row" /\ call.arg = 3
    /\ before = Canonical(2)
    /\ Changed2(Cube, before) = Outer2("rotate_row")

(* ---- C14 --------------------------------------------------------------- *)
\* C14: init_arange called after any sequence of rotate_row / rotate_column /
\* rotate_level calls leaves the canonical labelling: face k (Top, Left,
\* Front, Right, Back, Bottom as 0..5) reads k*N*N + y*N + x at row y, column
\* x through the attributes A..F, as on a freshly constructed cube.
C14_ReinitCanonical ==
    call.op = "init_arange" =>
        \A k \in FaceIds : \A y \in 0..(size - 1) : \A x \in 0..(size - 1) :
            Attr(Cube, k)[y][x] = (k - 1) * size * size + y * size + x

(* ---- C15 --------------------------------------------------------------- *)
\* The eight corners of the size-3 cube, each the three cells that meet there
\* when the net (Top above Front; Left, Front, Right, Back in a row; Bottom
\* below Front) is folded
Corners ==
    { {<<iA, 2, 0>>, <<iC, 0, 0>>, <<iB, 0, 2>>},
      {<<iA, 2, 2>>, <<iC, 0, 2>>, <<iD, 0, 0>>},
      {<<iA, 0, 2>>, <<iD, 0, 2>>, <<iE, 0, 0>>},
      {<<iA, 0, 0>>, <<iE, 0, 2>>, <<iB, 0, 0>>},
      {<<iF, 0, 0>>, <<iC, 2, 0>>, <<iB, 2, 2>>},
      {<<iF, 0, 2>>, <<iC, 2, 2>>, <<iD, 2, 0>>},
      {<<iF, 2, 2>>, <<iD, 2, 2>>, <<iE, 2, 0>>},
      {<<iF, 2, 0>>, <<iE, 2, 2>>, <<iB, 2, 0>>} }

\* The values cube c reads at the cells of corner t
CornerValues(c, t) == {At(c, p) : p \in t}

\* C15: after any sequence of moves from the canonical labelling of the
\* size-3 cube, the three values found at every corner are the three initial
\* values of one single corner: the stickers of a corner piece stay together.
C15_CornersStayTogether ==
    (size = 3 /\ labelled) =>
        \A t \in Corners : \E t0 \in Corners :
            CornerValues(Cube, t) = CornerValues(Canonical(3), t0)

\* The labelled cube after rotate_column(1) and rotate_level(4): six of the
\* eight corners hold the values of another corner
C15_Witness ==
    /\ size = 3 /\ labelled /\ calls = 2
    /\ Cube = RotateLevel(RotateColumn(Canonical(3), 1), 4)
    /\ Cardinality({t \in Corners :
                       CornerValues(Cube, t) # CornerValues(Canonical(3), t)}) = 6

====
